---- MODULE Spec2Model ----
(***************************************************************************)
(* Client-side response cache (CacheService: TTL expiry, lazy eviction,    *)
(* substring invalidation) and the API access layer that reads through it  *)
(* (fetchApi, productsApi, favoritesApi).                                  *)
(*                                                                         *)
(* JavaScript strings are sequences of one-character strings, so that      *)
(* String.includes, template literals and Array.join are computed on the   *)
(* characters.  Date.now() is the variable now, in milliseconds.           *)
(***************************************************************************)
EXTENDS Integers, Sequences, FiniteSets, TLC

VARIABLES
    cache,      \* CacheService.cache: key -> [data, timestamp, ttl]
    now,        \* Date.now()
    last,       \* the last cacheService call: its arguments, result and log line
    written,    \* history: key -> the most recent set on it that no invalidate/clear removed
    scenario,   \* which inputs the driver of the cache draws from
    calls,          \* the API calls in progress or finished, one per caller
    accessToken,    \* localStorage has auth_access_token
    refreshToken,   \* localStorage has auth_refresh_token
    isRefreshing,   \* api.ts isRefreshing
    refreshPromise, \* api.ts refreshPromise: the pending tryRefreshToken() and who awaits it
    server,         \* version of the data the backend holds
    auth            \* AuthProvider state: user is non-null, isAdmin

cacheVars == <<cache, now, last, written, scenario>>

apiVars == <<calls, accessToken, refreshToken, isRefreshing, refreshPromise, server, auth>>

vars == <<cache, now, last, written, scenario,
          calls, accessToken, refreshToken, isRefreshing, refreshPromise, server, auth>>

-----------------------------------------------------------------------------
(* Bounds of the model *)

\* payloads a caller may store are 1..NumPayloads
NumPayloads == 2
\* the clock takes the values T + e, e in 0..MaxSkew, around each lifetime T
MaxSkew == 1
\* successful mutations the backend accepts: its data has versions 1..MaxVersion
MaxVersion == 2

-----------------------------------------------------------------------------
(* Strings *)

SLASH_PRODUCTS == <<"/","p","r","o","d","u","c","t","s">>
SLASH_PRODUCTS_SLASH == <<"/","p","r","o","d","u","c","t","s","/">>
SLASH_PRODUCTS_FEATURED == <<"/","p","r","o","d","u","c","t","s","/","f","e","a","t","u","r","e","d">>
SLASH_PRODUCTS_CATEGORIES == <<"/","p","r","o","d","u","c","t","s","/","c","a","t","e","g","o","r","i","e","s">>
SLASH_FAVORITES == <<"/","f","a","v","o","r","i","t","e","s">>
SLASH_FAVORITES_COUNT == <<"/","f","a","v","o","r","i","t","e","s","/","c","o","u","n","t">>
SLASH_USERS == <<"/","u","s","e","r","s">>
SLASH_FAVORITES_SLASH == <<"/","f","a","v","o","r","i","t","e","s","/">>
SLASH_FAVORITES_CHECK_SLASH == <<"/","f","a","v","o","r","i","t","e","s","/","c","h","e","c","k","/">>
SLASH_USERS_SLASH == <<"/","u","s","e","r","s","/">>
SLASH_FEATURED == <<"/","f","e","a","t","u","r","e","d">>
SLASH_PRODUCTS_BULK == <<"/","p","r","o","d","u","c","t","s","/","b","u","l","k">>
SLASH_AUTH_LOGIN == <<"/","a","u","t","h","/","l","o","g","i","n">>
SLASH_AUTH_REGISTER == <<"/","a","u","t","h","/","r","e","g","i","s","t","e","r">>
QUESTION == <<"?">>
EQUALS == <<"=">>
AMPERSAND == <<"&">>
CATEGORY == <<"c","a","t","e","g","o","r","y">>
PAGE == <<"p","a","g","e">>

\* the characters the model uses, in UTF-16 code unit order
Chars == <<"&", "/", "1", "2", "7", "=", "?", "a", "b", "c", "d", "e", "f",
           "g", "h", "i", "k", "l", "n", "o", "p", "r", "s", "t", "u", "v",
           "x", "y">>

charCodeAt(c) == CHOOSE i \in 1..Len(Chars) : Chars[i] = c

\* String.prototype.includes: pattern occurs in s as a contiguous run
includes(s, pattern) ==
    \E i \in 1..(Len(s) + 1) :
        /\ i + Len(pattern) - 1 <= Len(s)
        /\ SubSeq(s, i, i + Len(pattern) - 1) = pattern

\* a < b in the order Array.prototype.sort uses by default
RECURSIVE stringLess(_, _)
stringLess(a, b) ==
    IF b = <<>> THEN FALSE
    ELSE IF a = <<>> THEN TRUE
    ELSE IF Head(a) = Head(b) THEN stringLess(Tail(a), Tail(b))
    ELSE charCodeAt(Head(a)) < charCodeAt(Head(b))

\* Array.prototype.sort on an array of strings, as an insertion sort
RECURSIVE insertSorted(_, _)
insertSorted(x, s) ==
    IF s = <<>> THEN <<x>>
    ELSE IF stringLess(x, Head(s)) THEN <<x>> \o s
    ELSE <<Head(s)>> \o insertSorted(x, Tail(s))

RECURSIVE sort(_)
sort(s) == IF s = <<>> THEN <<>> ELSE insertSorted(Head(s), sort(Tail(s)))

\* Array.prototype.join
RECURSIVE join(_, _)
join(parts, sep) ==
    IF parts = <<>> THEN <<>>
    ELSE IF Len(parts) = 1 THEN parts[1]
    ELSE parts[1] \o sep \o join(Tail(parts), sep)

-----------------------------------------------------------------------------
(* CacheService: pure parts *)

\* params?: Record<string, any> is [given, pairs]: given = FALSE is undefined,
\* pairs is the object's own properties <<name, value>> in insertion order
NoParams == [given |-> FALSE, pairs |-> <<>>]
Params(pairs) == [given |-> TRUE, pairs |-> pairs]

\* Object.keys(params)
objectKeys(params) == [i \in 1..Len(params.pairs) |-> params.pairs[i][1]]

\* params[key]
property(params, key) ==
    LET i == CHOOSE j \in 1..Len(params.pairs) : params.pairs[j][1] = key
    IN  params.pairs[i][2]

DEFAULT_TTL_AllThirty ==
    [products |-> 30, productList |-> 30, featuredProducts |-> 30,
     categories |-> 30, favorites |-> 30, favoritesCount |-> 30, usersList |-> 30]
DEFAULT_TTL ==
    [products |-> 30, productList |-> 30, featuredProducts |-> 30,
     categories |-> 5, favorites |-> 5, favoritesCount |-> 5, usersList |-> 10]

\* the singleton is constructed with no overrides
ttlConfig == DEFAULT_TTL

generateKeyUnsorted(endpoint, params) ==
    IF ~params.given \/ Len(objectKeys(params)) = 0 THEN endpoint
    ELSE LET keys == objectKeys(params)
         IN  endpoint \o QUESTION \o
                 join([i \in 1..Len(keys) |-> keys[i] \o EQUALS \o property(params, keys[i])],
                      AMPERSAND)
generateKey(endpoint, params) ==
    IF ~params.given \/ Len(objectKeys(params)) = 0 THEN endpoint
    ELSE LET sortedKeys == sort(objectKeys(params))
             sortedParams ==
                 join([i \in 1..Len(sortedKeys) |->
                          sortedKeys[i] \o EQUALS \o property(params, sortedKeys[i])],
                      AMPERSAND)
         IN  endpoint \o QUESTION \o sortedParams

\* this.ttlConfig = { ...DEFAULT_TTL, ...ttlConfig }
constructed(overrides) ==
    [f \in DOMAIN DEFAULT_TTL |-> IF f \in DOMAIN overrides THEN overrides[f] ELSE DEFAULT_TTL[f]]

getTTLListRuleFirst(config, key) ==
    IF includes(key, SLASH_PRODUCTS) THEN config.productList * 60 * 1000
    ELSE IF includes(key, SLASH_FAVORITES) THEN config.favorites * 60 * 1000
    ELSE IF includes(key, SLASH_USERS) THEN config.usersList * 60 * 1000
    ELSE 5 * 60 * 1000
\* getTTL of a CacheService constructed with config
getTTLWith(config, key) ==
    IF includes(key, SLASH_PRODUCTS_FEATURED) THEN config.featuredProducts * 60 * 1000
    ELSE IF includes(key, SLASH_PRODUCTS_CATEGORIES) THEN config.categories * 60 * 1000
    ELSE IF includes(key, SLASH_PRODUCTS_SLASH) /\ ~includes(key, QUESTION)
        THEN config.products * 60 * 1000
    ELSE IF includes(key, SLASH_PRODUCTS) THEN config.productList * 60 * 1000
    ELSE IF includes(key, SLASH_FAVORITES_COUNT) THEN config.favoritesCount * 60 * 1000
    ELSE IF includes(key, SLASH_FAVORITES) THEN config.favorites * 60 * 1000
    ELSE IF includes(key, SLASH_USERS) THEN config.usersList * 60 * 1000
    ELSE 5 * 60 * 1000

\* getTTL of the singleton
getTTL(key) == getTTLWith(ttlConfig, key)

\* get's null
Null == 0

\* Map: a function on the stored keys (insertion order is not modelled)
EmptyMap == [k \in {} |-> {}]
mapDelete(c, keys) == [k \in (DOMAIN c) \ keys |-> c[k]]
mapSet(c, key, entry) == [k \in (DOMAIN c) \cup {key} |-> IF k = key THEN entry ELSE c[k]]

isExpiredAtOrAfter(entry, t) == t - entry.timestamp >= entry.ttl
\* const isExpired = now - entry.timestamp > entry.ttl
isExpired(entry, t) == t - entry.timestamp > entry.ttl

getResultServingStale(c, endpoint, params, t) ==
    LET key == generateKey(endpoint, params)
    IN  IF key \notin DOMAIN c THEN Null ELSE c[key].data
\* what get returns at time t
getResult(c, endpoint, params, t) ==
    LET key == generateKey(endpoint, params)
    IN  IF key \notin DOMAIN c THEN Null
        ELSE IF isExpired(c[key], t) THEN Null
        ELSE c[key].data

getStoreRefreshing(c, endpoint, params, t) ==
    LET key == generateKey(endpoint, params)
    IN  IF key \notin DOMAIN c THEN c
        ELSE IF isExpired(c[key], t) THEN mapDelete(c, {key})
        ELSE [c EXCEPT ![key].timestamp = t]
getStoreKeeping(c, endpoint, params, t) == c
\* the store get leaves at time t
getStore(c, endpoint, params, t) ==
    LET key == generateKey(endpoint, params)
    IN  IF key \notin DOMAIN c THEN c
        ELSE IF isExpired(c[key], t) THEN mapDelete(c, {key})
        ELSE c

setStoreDefaultTTL(c, endpoint, data, params, t) ==
    mapSet(c, generateKey(endpoint, params),
           [data |-> data, timestamp |-> t, ttl |-> 5 * 60 * 1000])
setStoreKeepingAge(c, endpoint, data, params, t) ==
    LET key == generateKey(endpoint, params)
    IN  mapSet(c, key, [data |-> data,
                        timestamp |-> IF key \in DOMAIN c THEN c[key].timestamp ELSE t,
                        ttl |-> getTTL(key)])
\* the store set leaves at time t
setStore(c, endpoint, data, params, t) ==
    LET key == generateKey(endpoint, params)
        ttl == getTTL(key)
    IN  mapSet(c, key, [data |-> data, timestamp |-> t, ttl |-> ttl])

\* keysToDelete of invalidate
keysToDelete(c, pattern) == {key \in DOMAIN c : includes(key, pattern)}

invalidateStoreExact(c, pattern) == mapDelete(c, {key \in DOMAIN c : key = pattern})
invalidateStore(c, pattern) == mapDelete(c, keysToDelete(c, pattern))

invalidateProductsStore(c) == invalidateStore(c, SLASH_PRODUCTS)
invalidateFavoritesStore(c) == invalidateStore(c, SLASH_FAVORITES)
invalidateUsersStore(c) == invalidateStore(c, SLASH_USERS)

invalidateProductStoreOnly(c, productId) ==
    invalidateStore(c, SLASH_PRODUCTS_SLASH \o productId)
invalidateProductStore(c, productId) ==
    invalidateProductsStore(invalidateStore(c, SLASH_PRODUCTS_SLASH \o productId))

clearStoreKeeping(c) == c
clearStore(c) == EmptyMap

statsOfFresh(c) ==
    LET live == {k \in DOMAIN c : ~isExpired(c[k], now)}
    IN  [size |-> Cardinality(live), keys |-> live]
statsOf(c) == [size |-> Cardinality(DOMAIN c), keys |-> DOMAIN c]

-----------------------------------------------------------------------------
(* Inputs of the cache driver *)

SEVEN == <<"7">>
SEVENTY_ONE == <<"7","1">>
X == <<"x">>
ONE == <<"1">>
\* a parameter value that reads as a second parameter
X_AND_PAGE_1 == X \o AMPERSAND \o PAGE \o EQUALS \o ONE

\* lifetimes of the default policy table, in milliseconds
Lifetimes == {0, 5 * 60 * 1000, 30 * 60 * 1000}

\* (endpoint, params) pairs get and set are called with
Calls(sc) ==
    IF sc = "timing"
    THEN {<<SLASH_PRODUCTS_SLASH \o SEVEN, NoParams>>, <<SLASH_FAVORITES, NoParams>>}
    ELSE IF sc = "params"
    THEN {<<SLASH_PRODUCTS, NoParams>>,
          <<SLASH_PRODUCTS, Params(<<>>)>>,
          <<SLASH_PRODUCTS, Params(<<<<CATEGORY, X>>, <<PAGE, ONE>>>>)>>,
          <<SLASH_PRODUCTS, Params(<<<<PAGE, ONE>>, <<CATEGORY, X>>>>)>>,
          <<SLASH_PRODUCTS, Params(<<<<CATEGORY, X_AND_PAGE_1>>>>)>>,
          <<SLASH_FAVORITES, Params(<<<<CATEGORY, X>>>>)>>,
          <<SLASH_FAVORITES, Params(<<<<CATEGORY, SLASH_PRODUCTS>>>>)>>}
    ELSE IF sc = "query"
    THEN {<<SLASH_PRODUCTS, NoParams>>,
          <<SLASH_PRODUCTS, Params(<<<<CATEGORY, X>>>>)>>,
          <<SLASH_PRODUCTS \o QUESTION \o CATEGORY \o EQUALS \o X, NoParams>>}
    ELSE IF sc = "policy"
    THEN {<<SLASH_PRODUCTS_FEATURED, NoParams>>,
          <<SLASH_PRODUCTS_FEATURED, Params(<<<<CATEGORY, X>>>>)>>,
          <<SLASH_PRODUCTS_CATEGORIES, NoParams>>,
          <<SLASH_PRODUCTS_SLASH \o SEVEN, NoParams>>,
          <<SLASH_PRODUCTS_SLASH \o SEVEN, Params(<<<<CATEGORY, X>>>>)>>,
          <<SLASH_FAVORITES_COUNT, NoParams>>,
          <<SLASH_FAVORITES, NoParams>>,
          <<SLASH_USERS, NoParams>>,
          <<SLASH_AUTH_LOGIN, NoParams>>}
    ELSE {<<SLASH_PRODUCTS, NoParams>>,
          <<SLASH_PRODUCTS, Params(<<<<CATEGORY, X>>>>)>>,
          <<SLASH_PRODUCTS_SLASH \o SEVEN, NoParams>>,
          <<SLASH_PRODUCTS_SLASH \o SEVENTY_ONE, NoParams>>,
          <<SLASH_PRODUCTS_FEATURED, NoParams>>,
          <<SLASH_PRODUCTS_CATEGORIES, NoParams>>,
          <<SLASH_FAVORITES, NoParams>>}

Payloads(sc) == IF sc \in {"timing", "params"} THEN 1..NumPayloads ELSE {1}

\* the values Date.now() takes; the many-keys scenario is a single instant
Clock(sc) ==
    IF sc = "timing" THEN {T + e : T \in Lifetimes, e \in 0..MaxSkew}
    ELSE IF sc = "api" THEN {0, 5 * 60 * 1000 + 1}
    ELSE IF sc = "race" THEN {0, 1}
    ELSE {0}

Patterns(sc) ==
    IF sc = "timing" THEN {SLASH_FAVORITES}
    ELSE IF sc = "params" THEN {QUESTION}
    ELSE IF sc \in {"policy", "query"} THEN {SLASH_USERS}
    ELSE {SLASH_PRODUCTS, SLASH_FAVORITES, SLASH_PRODUCTS_SLASH \o SEVEN, QUESTION, <<>>}

ProductIds == {SEVEN, SEVENTY_ONE}

\* queryParams.toString() of productsApi.getAll: no filter, one category
QueryStrings == {<<>>, CATEGORY \o EQUALS \o X}

Scenarios == {"timing", "keys"}

\* scenarios that apply key derivation and the TTL policy at a single instant
KeyScenarios == {"params", "policy", "query"}

-----------------------------------------------------------------------------
(* API layer: state *)

\* callers that may have an API call in progress
Procs == {1}

\* fetch() rejected: no response
NETWORK_ERROR == 0
\* return undefined as T
Undefined == -1

NoOut == [kind |-> "none", value |-> Null, code |-> ""]

IdleCall ==
    [op |-> "none", id |-> <<>>, useCache |-> FALSE, retry |-> FALSE, pc |-> "idle",
     status |-> NETWORK_ERROR, body |-> Null, out |-> NoOut, reqs |-> 0, hit |-> FALSE,
     delta |-> {}, helper |-> "none", removed |-> {}, result |-> Null]

NoPromise == [pc |-> "null", token |-> FALSE, awaiters |-> <<>>]

\* module state of api.ts when it is loaded
ApiLoaded ==
    /\ calls = [p \in Procs |-> IdleCall]
    /\ isRefreshing = FALSE
    /\ refreshPromise = NoPromise
    /\ server = 1

\* AuthProvider before anyone has logged in: user = null, isAdmin = false
NoUser == [user |-> FALSE, isAdmin |-> FALSE]

\* scenarios in which AuthProvider is mounted: its callbacks are registered with
\* api.ts, and login and logout go through it
SessionScenarios == {"session"}

mounted(sc) == sc \in SessionScenarios

\* the admin claim in the payload of the access tokens the backend issues
hasAdminRole(sc) == sc \in SessionScenarios

\* AuthProvider after its effects have run on what localStorage holds
loadStoredAuth(storedAccessToken, storedRefreshToken, storedUser, expired, sc) ==
    IF storedAccessToken /\ storedRefreshToken /\ storedUser
    THEN IF ~expired
         THEN [user |-> TRUE, isAdmin |-> hasAdminRole(sc)]
         ELSE [user |-> TRUE, isAdmin |-> FALSE]
    ELSE NoUser

-----------------------------------------------------------------------------
(* CacheService: the calls *)

NoEntry == [data |-> Null, timestamp |-> -1, ttl |-> 0]
entryAt(c, key) == IF key \in DOMAIN c THEN c[key] ELSE NoEntry

Call(op, key, data, ret, prev, keys) ==
    [op |-> op, key |-> key, data |-> data, ret |-> ret, prev |-> prev, keys |-> keys,
     endpoint |-> <<>>, params |-> NoParams]

\* a call of get or set, with the arguments it was given
CallOn(op, endpoint, params, data, ret, prev, keys) ==
    [Call(op, generateKey(endpoint, params), data, ret, prev, keys)
        EXCEPT !.endpoint = endpoint, !.params = params]

\* s occurs in k: k = u \o s \o v for some u, v
Occurs(s, k) ==
    \E u \in 0..Len(k) :
        /\ u + Len(s) <= Len(k)
        /\ \A j \in 1..Len(s) : k[u + j] = s[j]

forget(w, pattern) == [k \in {x \in DOMAIN w : ~Occurs(pattern, x)} |-> w[k]]

get(endpoint, params) ==
    LET key == generateKey(endpoint, params)
    IN  /\ cache' = getStore(cache, endpoint, params, now)
        /\ last' = CallOn("get", endpoint, params, Null,
                          getResult(cache, endpoint, params, now), entryAt(cache, key), {})
        /\ UNCHANGED <<now, written, scenario>>

set(endpoint, data, params) ==
    LET key == generateKey(endpoint, params)
    IN  /\ cache' = setStore(cache, endpoint, data, params, now)
        /\ last' = CallOn("set", endpoint, params, data, Null, entryAt(cache, key), {})
        /\ written' = mapSet(written, key, [data |-> data, t0 |-> now, T |-> getTTL(key),
                                            params |-> params])
        /\ UNCHANGED <<now, scenario>>

invalidate(pattern) ==
    /\ cache' = invalidateStore(cache, pattern)
    /\ last' = Call("invalidate", pattern, Null, Null, NoEntry, keysToDelete(cache, pattern))
    /\ written' = forget(written, pattern)
    /\ UNCHANGED <<now, scenario>>

invalidateProducts ==
    /\ cache' = invalidateProductsStore(cache)
    /\ last' = Call("invalidateProducts", SLASH_PRODUCTS, Null, Null, NoEntry,
                    keysToDelete(cache, SLASH_PRODUCTS))
    /\ written' = forget(written, SLASH_PRODUCTS)
    /\ UNCHANGED <<now, scenario>>

invalidateFavorites ==
    /\ cache' = invalidateFavoritesStore(cache)
    /\ last' = Call("invalidateFavorites", SLASH_FAVORITES, Null, Null, NoEntry,
                    keysToDelete(cache, SLASH_FAVORITES))
    /\ written' = forget(written, SLASH_FAVORITES)
    /\ UNCHANGED <<now, scenario>>

invalidateUsers ==
    /\ cache' = invalidateUsersStore(cache)
    /\ last' = Call("invalidateUsers", SLASH_USERS, Null, Null, NoEntry,
                    keysToDelete(cache, SLASH_USERS))
    /\ written' = forget(written, SLASH_USERS)
    /\ UNCHANGED <<now, scenario>>

invalidateProduct(productId) ==
    /\ cache' = invalidateProductStore(cache, productId)
    /\ last' = Call("invalidateProduct", productId, Null, Null, NoEntry,
                    (DOMAIN cache) \ DOMAIN invalidateProductStore(cache, productId))
    /\ written' = forget(forget(written, SLASH_PRODUCTS_SLASH \o productId), SLASH_PRODUCTS)
    /\ UNCHANGED <<now, scenario>>

\* the record of clear keeps the keys it removed and how many of them had expired
clear ==
    /\ cache' = clearStore(cache)
    /\ last' = Call("clear", <<>>, Null,
                    Cardinality({k \in DOMAIN cache : isExpired(cache[k], now)}),
                    NoEntry, DOMAIN cache)
    /\ written' = EmptyMap
    /\ UNCHANGED <<now, scenario>>

getStats ==
    /\ last' = Call("getStats", <<>>, Null, statsOf(cache).size, NoEntry, statsOf(cache).keys)
    /\ UNCHANGED <<cache, now, written, scenario>>

\* time passes between calls
Tick ==
    /\ \E t \in Clock(scenario) : t > now /\ now' = t
    /\ last' = Call("tick", <<>>, Null, Null, NoEntry, {})
    /\ UNCHANGED <<cache, written, scenario>>

CacheInit ==
    /\ cache = EmptyMap
    /\ now = 0
    /\ last = Call("new", <<>>, Null, Null, NoEntry, {})
    /\ written = EmptyMap
    /\ scenario \in Scenarios
    /\ ApiLoaded
    /\ accessToken = FALSE
    /\ refreshToken = FALSE
    /\ auth = NoUser

CacheNext ==
    \/ \E c \in Calls(scenario) : get(c[1], c[2])
    \/ \E c \in Calls(scenario), data \in Payloads(scenario) : set(c[1], data, c[2])
    \/ \E pattern \in Patterns(scenario) : invalidate(pattern)
    \/ invalidateProducts
    \/ invalidateFavorites
    \/ invalidateUsers
    \/ \E productId \in ProductIds : invalidateProduct(productId)
    \/ clear
    \/ getStats
    \/ Tick

CacheSpec == CacheInit /\ [][CacheNext /\ UNCHANGED apiVars]_vars

KeyInit ==
    /\ cache = EmptyMap
    /\ now = 0
    /\ last = Call("new", <<>>, Null, Null, NoEntry, {})
    /\ written = EmptyMap
    /\ scenario \in KeyScenarios
    /\ ApiLoaded
    /\ accessToken = FALSE
    /\ refreshToken = FALSE
    /\ auth = NoUser

KeyNext ==
    \/ \E c \in Calls(scenario) : get(c[1], c[2])
    \/ \E c \in Calls(scenario), data \in Payloads(scenario) : set(c[1], data, c[2])
    \/ \E pattern \in Patterns(scenario) : invalidate(pattern)
    \/ invalidateProducts
    \/ invalidateFavorites
    \/ invalidateUsers
    \/ \E productId \in ProductIds : invalidateProduct(productId)
    \/ clear
    \/ getStats

KeySpec == KeyInit /\ [][KeyNext /\ UNCHANGED apiVars]_vars

-----------------------------------------------------------------------------
(* API layer: fetchApi and the operations built on it *)

Req(endpoint, method, direct, retry, after, deref) ==
    [endpoint |-> endpoint, method |-> method, direct |-> direct, retry |-> retry,
     after |-> after, deref |-> deref]

\* the request each operation makes: endpoint, method, whether it calls fetch
\* itself instead of fetchApi, retryOnUnauthorized, what it does after the
\* request succeeded, and whether it reads a property of the result
Api(op, id) ==
    CASE op = "productsApi.getAll" ->
            Req(IF id = <<>> THEN SLASH_PRODUCTS ELSE SLASH_PRODUCTS \o QUESTION \o id,
                "GET", FALSE, TRUE, "none", TRUE)
      [] op = "productsApi.getById" ->
            Req(SLASH_PRODUCTS_SLASH \o id, "GET", FALSE, TRUE, "none", TRUE)
      [] op = "productsApi.getFeatured" ->
            Req(SLASH_PRODUCTS_FEATURED, "GET", FALSE, TRUE, "none", TRUE)
      [] op = "productsApi.getCategories" ->
            Req(SLASH_PRODUCTS_CATEGORIES, "GET", FALSE, TRUE, "none", FALSE)
      [] op = "productsApi.create" ->
            Req(SLASH_PRODUCTS, "POST", TRUE, FALSE, "invalidateProducts", FALSE)
      [] op = "productsApi.update" ->
            Req(SLASH_PRODUCTS_SLASH \o id, "PUT", TRUE, FALSE, "invalidateProduct", FALSE)
      [] op = "productsApi.delete" ->
            Req(SLASH_PRODUCTS_SLASH \o id, "DELETE", FALSE, TRUE, "invalidateProduct", FALSE)
      [] op = "productsApi.toggleFeatured" ->
            Req(SLASH_PRODUCTS_SLASH \o id \o SLASH_FEATURED, "PATCH", FALSE, TRUE,
                "invalidateProducts", TRUE)
      [] op = "productsApi.createBulk" ->
            Req(SLASH_PRODUCTS_BULK, "POST", TRUE, FALSE, "invalidateProducts", FALSE)
      [] op = "productsApi.deleteBulk" ->
            Req(SLASH_PRODUCTS_BULK, "DELETE", FALSE, TRUE, "invalidateProducts", FALSE)
      [] op = "favoritesApi.getAll" -> Req(SLASH_FAVORITES, "GET", FALSE, TRUE, "none", TRUE)
      [] op = "favoritesApi.add" ->
            Req(SLASH_FAVORITES, "POST", FALSE, TRUE, "invalidateFavorites", FALSE)
      [] op = "favoritesApi.remove" ->
            Req(SLASH_FAVORITES_SLASH \o id, "DELETE", FALSE, TRUE, "invalidateFavorites", FALSE)
      [] op = "favoritesApi.check" ->
            Req(SLASH_FAVORITES_CHECK_SLASH \o id, "GET", FALSE, TRUE, "none", FALSE)
      [] op = "favoritesApi.count" ->
            Req(SLASH_FAVORITES_COUNT, "GET", FALSE, TRUE, "none", FALSE)
      [] op = "favoritesApi.clearAll" ->
            Req(SLASH_FAVORITES, "DELETE", FALSE, TRUE, "invalidateFavorites", FALSE)
      [] op = "usersApi.getAll" -> Req(SLASH_USERS, "GET", FALSE, TRUE, "none", FALSE)
      [] op = "usersApi.getById" -> Req(SLASH_USERS_SLASH \o id, "GET", FALSE, TRUE, "none", FALSE)
      [] op = "authApi.login" -> Req(SLASH_AUTH_LOGIN, "POST", FALSE, FALSE, "saveTokens", TRUE)
      [] op = "authApi.register" -> Req(SLASH_AUTH_REGISTER, "POST", FALSE, TRUE, "none", FALSE)

GetOps ==
    {"productsApi.getAll", "productsApi.getById", "productsApi.getFeatured",
     "productsApi.getCategories", "favoritesApi.getAll", "favoritesApi.check",
     "favoritesApi.count", "usersApi.getAll", "usersApi.getById"}

MutatingOps ==
    {"productsApi.create", "productsApi.update", "productsApi.delete",
     "productsApi.toggleFeatured", "productsApi.createBulk", "productsApi.deleteBulk",
     "favoritesApi.add", "favoritesApi.remove", "favoritesApi.clearAll"}

AuthOps == {"authApi.login", "authApi.register"}

\* response.status values the backend answers with, and no answer at all
Statuses == {200, 204, 401, 403, 500, NETWORK_ERROR}

\* response.ok
responseOk(status) == status >= 200 /\ status <= 299

\* what one call changed in the store: keys deleted, keys written
storeDelta(c, d) ==
    {<<"delete", k>> : k \in (DOMAIN c) \ (DOMAIN d)}
        \cup {<<"set", k>> : k \in {x \in DOMAIN d : x \notin DOMAIN c \/ c[x] # d[x]}}

\* what one step of a call leaves: the call, the store fetchApi (or the
\* operation's own fetch) leaves, then the store and tokens the operation leaves
Step(call, store, save, logout) ==
    [call |-> call, fetched |-> store, store |-> store, save |-> save, logout |-> logout]

\* the operation throws
apiThrow(call, status, code, store, logout) ==
    Step([call EXCEPT !.pc = "done", !.out = [kind |-> "throw", value |-> status, code |-> code]],
         store, FALSE, logout)

\* operations whose response body holds Product objects (Product, Product[],
\* ProductList), so that a cached body may hold a copy of a product
ProductPayloadOps ==
    {"productsApi.getAll", "productsApi.getById", "productsApi.getFeatured",
     "favoritesApi.getAll"}

\* a body below HasId holds products as the backend sends them, without id;
\* HasId more is the same body with id filled in on every product
HasId == 10

\* { ...p, id: p.id || p.uuid || p._id } on the products of a body
normalizeProduct(p) == IF p >= HasId \/ p <= Null THEN p ELSE p + HasId

\* what an operation returns for the value fetchApi gave it
resultOf(op, value) == IF op \in ProductPayloadOps THEN normalizeProduct(value) ELSE value

\* the store once the operation has built its result from the object fetchApi
\* returned: productsApi.getAll assigns data.products on that object, which
\* is the cached one when the call went through the cache
normalized(call, value, store) ==
    LET k == Api(call.op, call.id).endpoint
    IN  IF call.op = "productsApi.getAll" /\ call.useCache /\ k \in DOMAIN store
        THEN [store EXCEPT ![k].data = normalizeProduct(value)]
        ELSE store

apiReturnSkippingHelper(call, value, store) ==
    LET a == Api(call.op, call.id)
        typeError == a.deref /\ value = Undefined
        helped == [call EXCEPT !.helper = IF a.after = "saveTokens" THEN "none" ELSE a.after]
    IN  [fetched |-> store] @@
        (IF typeError
         THEN apiThrow(helped, NETWORK_ERROR, "TypeError", store, FALSE)
         ELSE Step([helped EXCEPT !.pc = "done",
                                  !.out = [kind |-> "ok", value |-> value, code |-> ""],
                                  !.result = resultOf(call.op, value)],
                   normalized(call, value, store), a.after = "saveTokens", FALSE))
\* the rest of the operation once its request has succeeded with value: the
\* invalidation helper, then the result (normalizeProduct, data.map, ...)
apiReturn(call, value, store) ==
    LET a == Api(call.op, call.id)
        store1 == CASE a.after = "invalidateProducts" -> invalidateProductsStore(store)
                    [] a.after = "invalidateProduct" -> invalidateProductStore(store, call.id)
                    [] a.after = "invalidateFavorites" -> invalidateFavoritesStore(store)
                    [] OTHER -> store
        typeError == a.deref /\ value = Undefined
        helped == [call EXCEPT !.helper = IF a.after = "saveTokens" THEN "none" ELSE a.after]
    IN  [fetched |-> store] @@
        (IF typeError
         THEN apiThrow(helped, NETWORK_ERROR, "TypeError", store1, FALSE)
         ELSE Step([helped EXCEPT !.pc = "done",
                                  !.out = [kind |-> "ok", value |-> value, code |-> ""],
                                  !.result = resultOf(call.op, value)],
                   normalized(call, value, store1), a.after = "saveTokens", FALSE))

fetchApiNoLookup(call, store, t) ==
    Step([call EXCEPT !.pc = "sent", !.reqs = @ + 1], store, FALSE, FALSE)
fetchApiRequestOnHit(call, store, t) ==
    LET a == Api(call.op, call.id)
        lookup == call.useCache /\ a.method = "GET"
        store1 == IF lookup THEN getStore(store, a.endpoint, NoParams, t) ELSE store
    IN  Step([call EXCEPT !.pc = "sent", !.reqs = @ + 1], store1, FALSE, FALSE)
\* fetchApi up to its first await: the cache lookup, then fetch(url)
fetchApi(call, store, t) ==
    LET a == Api(call.op, call.id)
        lookup == call.useCache /\ a.method = "GET"
        cached == IF lookup THEN getResult(store, a.endpoint, NoParams, t) ELSE Null
        store1 == IF lookup THEN getStore(store, a.endpoint, NoParams, t) ELSE store
    IN  IF cached # Null
        THEN apiReturn([call EXCEPT !.hit = TRUE], cached, store1)
        ELSE Step([call EXCEPT !.pc = "sent", !.reqs = @ + 1], store1, FALSE, FALSE)

fetchApiResponseCachingErrors(call, store, t, hasRefreshToken) ==
    LET a == Api(call.op, call.id)
        stored == IF call.useCache /\ a.method = "GET"
                  THEN setStore(store, a.endpoint, call.body, NoParams, t) ELSE store
    IN  IF call.status = NETWORK_ERROR THEN apiThrow(call, NETWORK_ERROR, "TypeError", store, FALSE)
        ELSE IF call.status \in {401, 403} /\ call.retry
        THEN IF hasRefreshToken
             THEN Step([call EXCEPT !.pc = "refreshing"], store, FALSE, FALSE)
             ELSE apiThrow(call, call.status, "", store, FALSE)
        ELSE IF ~responseOk(call.status) THEN apiThrow(call, call.status, "", stored, FALSE)
        ELSE IF call.status = 204 THEN apiReturn(call, Undefined, store)
        ELSE apiReturn(call, call.body, stored)
fetchApiResponseKeepingFirst(call, store, t, hasRefreshToken) ==
    LET a == Api(call.op, call.id)
        stored == IF call.useCache /\ a.method = "GET" /\ a.endpoint \notin DOMAIN store
                  THEN setStore(store, a.endpoint, call.body, NoParams, t) ELSE store
    IN  IF call.status = NETWORK_ERROR THEN apiThrow(call, NETWORK_ERROR, "TypeError", store, FALSE)
        ELSE IF call.status \in {401, 403} /\ call.retry
        THEN IF hasRefreshToken
             THEN Step([call EXCEPT !.pc = "refreshing"], store, FALSE, FALSE)
             ELSE apiThrow(call, call.status, "", store, FALSE)
        ELSE IF ~responseOk(call.status) THEN apiThrow(call, call.status, "", store, FALSE)
        ELSE IF call.status = 204 THEN apiReturn(call, Undefined, store)
        ELSE apiReturn(call, call.body, stored)
\* fetchApi from the response to its return, throw or await refreshPromise
fetchApiResponse(call, store, t, hasRefreshToken) ==
    LET a == Api(call.op, call.id)
    IN  IF call.status = NETWORK_ERROR THEN apiThrow(call, NETWORK_ERROR, "TypeError", store, FALSE)
        ELSE IF call.status \in {401, 403} /\ call.retry
        THEN IF hasRefreshToken
             THEN Step([call EXCEPT !.pc = "refreshing"], store, FALSE, FALSE)
             ELSE apiThrow(call, call.status, "", store, FALSE)
        ELSE IF ~responseOk(call.status) THEN apiThrow(call, call.status, "", store, FALSE)
        ELSE IF call.status = 204 THEN apiReturn(call, Undefined, store)
        ELSE LET data == call.body
                 store1 == IF call.useCache /\ a.method = "GET"
                           THEN setStore(store, a.endpoint, data, NoParams, t)
                           ELSE store
             IN  apiReturn(call, data, store1)

directResponseInvalidatingFirst(call, store) ==
    IF responseOk(call.status) /\ call.status # 204
    THEN apiReturn(call, call.body, store)
    ELSE [fetched |-> store] @@
         apiThrow(apiReturn(call, call.body, store).call, call.status, "",
                  apiReturn(call, call.body, store).store, FALSE)
\* create, update, createBulk from the response of their own fetch
directResponse(call, store) ==
    IF call.status = NETWORK_ERROR THEN apiThrow(call, NETWORK_ERROR, "TypeError", store, FALSE)
    ELSE IF ~responseOk(call.status) THEN apiThrow(call, call.status, "", store, FALSE)
    ELSE IF call.status = 204 THEN apiThrow(call, call.status, "SyntaxError", store, FALSE)
    ELSE apiReturn(call, call.body, store)

\* the state performLogout leaves in AuthProvider
performLogoutState == NoUser

\* if (onForceLogout) onForceLogout(): AuthProvider's callback is performLogout
onForceLogout(a, sc) == IF mounted(sc) THEN performLogoutState ELSE a

\* if (onTokenRefreshed) onTokenRefreshed(token): AuthProvider's callback
\* sets isAdmin from the payload of the new token
onTokenRefreshed(a, sc) == IF mounted(sc) THEN [a EXCEPT !.isAdmin = hasAdminRole(sc)] ELSE a

\* AuthProvider.login after authApi.login returned: setUser, setIsAdmin
loggedIn(a, sc) == IF mounted(sc) THEN [user |-> TRUE, isAdmin |-> hasAdminRole(sc)] ELSE a

\* tryRefreshToken from the response on: with an access token in it,
\* updateAccessToken and the token-refreshed callback; otherwise null
tryRefreshToken(token, access, a, sc) ==
    IF token
    THEN [access |-> TRUE, auth |-> onTokenRefreshed(a, sc)]
    ELSE [access |-> access, auth |-> a]

afterRefreshRetryingAgain(call, store, t, newToken) ==
    IF newToken
    THEN fetchApi(call, store, t)
    ELSE apiThrow(call, call.status, "SESSION_EXPIRED", store, TRUE)
afterRefreshKeepingSession(call, store, t, newToken) ==
    IF newToken
    THEN fetchApi([call EXCEPT !.retry = FALSE], store, t)
    ELSE apiThrow(call, call.status, "", store, FALSE)
\* fetchApi after await refreshPromise
afterRefresh(call, store, t, newToken) ==
    IF newToken
    THEN fetchApi([call EXCEPT !.retry = FALSE], store, t)
    ELSE apiThrow(call, call.status, "SESSION_EXPIRED", store, TRUE)

\* the state the awaiting calls leave, resumed in the order they awaited
RECURSIVE resume(_, _, _, _)
resume(awaiters, state, t, newToken) ==
    IF awaiters = <<>> THEN state
    ELSE LET p == Head(awaiters)
             r == afterRefresh(state.calls[p], state.store, t, newToken)
             done == [r.call EXCEPT !.delta = @ \cup storeDelta(state.store, r.fetched),
                                    !.removed = (DOMAIN r.fetched) \ (DOMAIN r.store)]
         IN  resume(Tail(awaiters),
                    [calls |-> [state.calls EXCEPT ![p] = done],
                     store |-> r.store,
                     access |-> IF r.logout THEN FALSE ELSE state.access,
                     refresh |-> IF r.logout THEN FALSE ELSE state.refresh,
                     auth |-> IF r.logout THEN onForceLogout(state.auth, state.sc)
                              ELSE state.auth,
                     sc |-> state.sc],
                    t, newToken)

\* one call's step applied to the module state
Apply(p, r) ==
    /\ calls' = [calls EXCEPT ![p] = [r.call EXCEPT !.delta = @ \cup storeDelta(cache, r.fetched),
                                                   !.removed = (DOMAIN r.fetched) \ (DOMAIN r.store)]]
    /\ cache' = r.store
    /\ accessToken' = IF r.logout THEN FALSE ELSE IF r.save THEN TRUE ELSE accessToken
    /\ refreshToken' = IF r.logout THEN FALSE ELSE IF r.save THEN TRUE ELSE refreshToken
    /\ auth' = IF r.logout THEN onForceLogout(auth, scenario)
               ELSE IF r.save THEN loggedIn(auth, scenario)
               ELSE auth

\* a caller starts an operation
StartCall(p, op, id, useCache, validEmail) ==
    /\ calls[p].pc \in {"idle", "done"}
    /\ LET a == Api(op, id)
           call == [IdleCall EXCEPT !.op = op, !.id = id, !.useCache = useCache,
                                    !.retry = a.retry]
       IN  Apply(p, IF op \in AuthOps /\ ~validEmail THEN apiThrow(call, 400, "", cache, FALSE)
                    ELSE IF a.direct
                    THEN Step([call EXCEPT !.pc = "sent", !.reqs = 1], cache, FALSE, FALSE)
                    ELSE fetchApi(call, cache, now))
    /\ UNCHANGED <<now, last, written, scenario, isRefreshing, refreshPromise, server>>

\* the backend answers a request, or the request fails in the network; its data
\* are versioned in the scenario that follows one product through its updates
ServerReply(p, status) ==
    /\ calls[p].pc = "sent"
    /\ LET changes == /\ calls[p].op \in MutatingOps
                      /\ responseOk(status)
                      /\ scenario \in {"api", "race"}
       IN  /\ changes => server < MaxVersion
           /\ server' = IF changes THEN server + 1 ELSE server
    /\ calls' = [calls EXCEPT ![p].pc = "replied", ![p].status = status,
                              ![p].body = IF status = 200 THEN server' ELSE Null]
    /\ UNCHANGED <<cache, now, last, written, scenario, accessToken, refreshToken,
                   isRefreshing, refreshPromise, auth>>

\* the caller's code runs on the response
Receive(p) ==
    /\ calls[p].pc = "replied"
    /\ LET call == calls[p]
           r == IF Api(call.op, call.id).direct THEN directResponse(call, cache)
                ELSE fetchApiResponse(call, cache, now, refreshToken)
       IN  IF r.call.pc # "refreshing"
           THEN Apply(p, r) /\ UNCHANGED <<isRefreshing, refreshPromise>>
           ELSE IF ~isRefreshing
           THEN /\ isRefreshing' = TRUE
                /\ refreshPromise' = [pc |-> "sent", token |-> FALSE, awaiters |-> <<p>>]
                /\ Apply(p, r)
           ELSE IF refreshPromise # NoPromise
           THEN /\ refreshPromise' = [refreshPromise EXCEPT !.awaiters = Append(@, p)]
                /\ Apply(p, r)
                /\ UNCHANGED isRefreshing
           ELSE /\ isRefreshing' = FALSE
                /\ Apply(p, afterRefresh(call, cache, now, FALSE))
                /\ UNCHANGED refreshPromise
    /\ UNCHANGED <<now, last, written, scenario, server>>

\* the backend answers POST /auth/refresh: a new access token, or none
RefreshReply(token) ==
    /\ refreshPromise.pc = "sent"
    /\ refreshPromise' = [refreshPromise EXCEPT !.pc = "replied", !.token = token]
    /\ UNCHANGED <<cache, now, last, written, scenario, calls, accessToken, refreshToken,
                   isRefreshing, server, auth>>

\* tryRefreshToken returns and every call awaiting refreshPromise goes on
RefreshSettle ==
    /\ refreshPromise.pc = "replied"
    /\ LET newToken == refreshPromise.token
           settled == tryRefreshToken(newToken, accessToken, auth, scenario)
           end == resume(refreshPromise.awaiters,
                         [calls |-> calls, store |-> cache,
                          access |-> settled.access,
                          refresh |-> refreshToken,
                          auth |-> settled.auth,
                          sc |-> scenario],
                         now, newToken)
       IN  /\ calls' = end.calls
           /\ cache' = end.store
           /\ accessToken' = end.access
           /\ refreshToken' = end.refresh
           /\ auth' = end.auth
    /\ isRefreshing' = FALSE
    /\ refreshPromise' = NoPromise
    /\ UNCHANGED <<now, last, written, scenario, server>>

\* authApi.logout
logout ==
    /\ accessToken' = FALSE
    /\ refreshToken' = FALSE
    /\ UNCHANGED <<cache, now, last, written, scenario, calls, isRefreshing, refreshPromise,
                   server, auth>>

\* time passes between events
TimePasses ==
    /\ \E t \in Clock(scenario) : t > now /\ now' = t
    /\ UNCHANGED <<cache, last, written, scenario, calls, accessToken, refreshToken,
                   isRefreshing, refreshPromise, server, auth>>

\* the entry cached under key may hold a copy of product id
mayHoldProduct(key, id) ==
    \E op \in ProductPayloadOps, i \in ProductIds \cup QueryStrings :
        /\ Api(op, i).endpoint = key
        /\ op = "productsApi.getById" => i = id

\* operations and arguments the callers use
ApiCalls ==
    {<<op, SEVEN>> : op \in {"productsApi.getById", "favoritesApi.getAll"}
                             \cup MutatingOps \cup {"authApi.login"}}

\* every cached endpoint of the two resource groups, at a single instant
GroupCalls ==
    {<<"productsApi.getAll", q>> : q \in QueryStrings}
        \cup {<<op, SEVEN>> : op \in {"productsApi.getById", "productsApi.getFeatured",
                                       "productsApi.getCategories", "favoritesApi.getAll",
                                       "favoritesApi.count", "favoritesApi.check"}
                                          \cup MutatingOps \cup {"authApi.login"}}

ApiScenarios == {"api", "groups"}

Init ==
    /\ cache = EmptyMap
    /\ now = 0
    /\ last = Call("new", <<>>, Null, Null, NoEntry, {})
    /\ written = EmptyMap
    /\ scenario \in ApiScenarios
    /\ ApiLoaded
    /\ accessToken \in BOOLEAN
    /\ refreshToken = accessToken
    /\ auth = NoUser

Next ==
    \/ \E p \in Procs, c \in ApiCalls \cup GroupCalls, useCache \in BOOLEAN,
            validEmail \in BOOLEAN :
          /\ c \in IF scenario = "api" THEN ApiCalls ELSE GroupCalls
          /\ scenario = "groups" => useCache = (c[1] \in GetOps) /\ validEmail
          /\ useCache => c[1] \in GetOps
          /\ ~validEmail => c[1] \in AuthOps
          /\ StartCall(p, c[1], c[2], useCache, validEmail)
    \/ \E p \in Procs, status \in Statuses :
          /\ scenario = "groups" => status \in {200, 500}
          /\ ServerReply(p, status)
    \/ \E p \in Procs : Receive(p)
    \/ \E token \in BOOLEAN : RefreshReply(token)
    \/ RefreshSettle
    \/ logout
    \/ TimePasses

Spec == Init /\ [][Next]_vars

-----------------------------------------------------------------------------
(* Two callers with overlapping calls, and AuthProvider on top of api.ts *)

Callers == {1, 2}

\* AuthProvider.logout, and the forced logout: clearTokens, then user = null
\* and isAdmin = false
performLogout ==
    /\ mounted(scenario)
    /\ accessToken' = FALSE
    /\ refreshToken' = FALSE
    /\ auth' = performLogoutState
    /\ UNCHANGED <<cache, now, last, written, scenario, calls, isRefreshing, refreshPromise,
                   server>>

\* authApi.refresh: tryRefreshToken called outside fetchApi, up to its fetch
refresh(p) ==
    /\ calls[p].pc \in {"idle", "done"}
    /\ calls' = [calls EXCEPT ![p] =
                    IF refreshToken
                    THEN [IdleCall EXCEPT !.op = "authApi.refresh", !.pc = "refreshSent"]
                    ELSE [IdleCall EXCEPT !.op = "authApi.refresh", !.pc = "done",
                                          !.out = [kind |-> "ok", value |-> Null, code |-> ""]]]
    /\ UNCHANGED <<cache, now, last, written, scenario, accessToken, refreshToken,
                   isRefreshing, refreshPromise, server, auth>>

\* the backend answers the POST /auth/refresh of authApi.refresh
refreshReply(p, token) ==
    /\ calls[p].pc = "refreshSent"
    /\ calls' = [calls EXCEPT ![p].pc = "refreshReplied",
                              ![p].status = IF token THEN 200 ELSE 401,
                              ![p].body = IF token THEN 1 ELSE Null]
    /\ UNCHANGED <<cache, now, last, written, scenario, accessToken, refreshToken,
                   isRefreshing, refreshPromise, server, auth>>

\* tryRefreshToken returns to authApi.refresh
refreshReturn(p) ==
    /\ calls[p].pc = "refreshReplied"
    /\ LET settled == tryRefreshToken(calls[p].status = 200, accessToken, auth, scenario)
       IN  /\ accessToken' = settled.access
           /\ auth' = settled.auth
    /\ calls' = [calls EXCEPT ![p].pc = "done",
                              ![p].out = [kind |-> "ok", value |-> calls[p].body, code |-> ""]]
    /\ UNCHANGED <<cache, now, last, written, scenario, refreshToken, isRefreshing,
                   refreshPromise, server>>

RaceScenarios == {"race", "session"}

\* operations and arguments of the two callers: a product read through the
\* cache while it is updated; a session that reads, logs in and refreshes
RaceCalls(sc) ==
    IF sc = "race"
    THEN {<<"productsApi.getById", SEVEN>>, <<"productsApi.update", SEVEN>>}
    ELSE {<<"favoritesApi.getAll", SEVEN>>, <<"authApi.login", SEVEN>>}

RaceStatuses(sc) == IF sc = "race" THEN {200, 500} ELSE {200, 401}

RaceInit ==
    /\ cache = EmptyMap
    /\ now = 0
    /\ last = Call("new", <<>>, Null, Null, NoEntry, {})
    /\ written = EmptyMap
    /\ scenario \in RaceScenarios
    /\ calls = [p \in Callers |-> IdleCall]
    /\ isRefreshing = FALSE
    /\ refreshPromise = NoPromise
    /\ server = 1
    /\ accessToken \in BOOLEAN
    /\ scenario = "race" => accessToken
    /\ refreshToken = accessToken
    /\ \E expired \in BOOLEAN :
          auth = IF mounted(scenario)
                 THEN loadStoredAuth(accessToken, refreshToken, accessToken, expired, scenario)
                 ELSE NoUser

\* the network answers the request of caller p
Reply(p) == \E status \in RaceStatuses(scenario) : ServerReply(p, status)

RaceNext ==
    \/ \E p \in Callers, c \in RaceCalls(scenario) :
          StartCall(p, c[1], c[2], c[1] \in GetOps, TRUE)
    \/ \E p \in Callers : Reply(p)
    \/ \E p \in Callers : Receive(p)
    \/ \E token \in BOOLEAN : RefreshReply(token)
    \/ RefreshSettle
    \/ \E p \in Callers : scenario = "session" /\ refresh(p)
    \/ \E p \in Callers, token \in BOOLEAN : refreshReply(p, token)
    \/ \E p \in Callers : refreshReturn(p)
    \/ performLogout
    \/ TimePasses

RaceSpec == RaceInit /\ [][RaceNext]_vars

\* one caller's session, for what a call does in the end
LiveInit ==
    /\ cache = EmptyMap
    /\ now = 0
    /\ last = Call("new", <<>>, Null, Null, NoEntry, {})
    /\ written = EmptyMap
    /\ scenario \in SessionScenarios
    /\ ApiLoaded
    /\ accessToken \in BOOLEAN
    /\ refreshToken = accessToken
    /\ \E expired \in BOOLEAN :
          auth = loadStoredAuth(accessToken, refreshToken, accessToken, expired, scenario)

LiveNext ==
    \/ \E p \in Procs, c \in RaceCalls(scenario), useCache \in BOOLEAN :
          /\ useCache => c[1] \in GetOps
          /\ StartCall(p, c[1], c[2], useCache, TRUE)
    \/ \E p \in Procs : Reply(p)
    \/ \E p \in Procs : Receive(p)
    \/ \E token \in BOOLEAN : RefreshReply(token)
    \/ RefreshSettle
    \/ performLogout

\* every request is answered or fails, and the event loop runs every
\* continuation that is ready
LiveSpec ==
    /\ LiveInit
    /\ [][LiveNext]_vars
    /\ \A p \in Procs : WF_vars(Reply(p)) /\ WF_vars(Receive(p))
    /\ WF_vars(\E token \in BOOLEAN : RefreshReply(token))
    /\ WF_vars(RefreshSettle)

-----------------------------------------------------------------------------
(* Claims about CacheService, checked under CacheSpec *)

\* C1: an entry written by set at t0 with resolved TTL T, not since touched by
\* set, invalidate or clear, is returned by get at time t when t - t0 <= T
\* (t - t0 = T included) and get returns null when t - t0 > T.
C1_TtlExpiry ==
    (last.op = "get" /\ last.key \in DOMAIN written) =>
        LET w == written[last.key]
        IN  /\ now - w.t0 <= w.T => last.ret = w.data
            /\ now - w.t0 > w.T => last.ret = Null

\* a get exactly T after the set returned the payload
C1_HitAtExactlyT ==
    /\ last.op = "get"
    /\ last.key \in DOMAIN written
    /\ now - written[last.key].t0 = written[last.key].T
    /\ last.ret = written[last.key].data
    /\ last.ret # Null

\* C2: a get that hits a fresh entry leaves the whole store unchanged, and every
\* stored entry still expires at t0 + T of the set that wrote it.
C2_NoRefreshOnRead ==
    [][(last'.op = "get" /\ last'.ret # Null) =>
          /\ cache' = cache
          /\ \A k \in DOMAIN cache' :
                cache'[k].timestamp + cache'[k].ttl = written'[k].t0 + written'[k].T]_vars

\* a hit some time after the entry was written
C2_HitAfterTimePassed ==
    /\ last.op = "get"
    /\ last.ret # Null
    /\ last.key \in DOMAIN cache
    /\ now > cache[last.key].timestamp

\* C3: a get on an expired entry deletes exactly that entry (size shrinks by
\* one, the rest unchanged) and returns null; a following getStats does not
\* list the key.
C3_LazyEviction ==
    [][/\ (/\ last'.op = "get"
           /\ last'.key \in DOMAIN cache
           /\ now - cache[last'.key].timestamp > cache[last'.key].ttl) =>
              /\ last'.ret = Null
              /\ DOMAIN cache' = (DOMAIN cache) \ {last'.key}
              /\ Cardinality(DOMAIN cache') = Cardinality(DOMAIN cache) - 1
              /\ \A k \in DOMAIN cache' : cache'[k] = cache[k]
       /\ (/\ last.op = "get"
           /\ last.prev # NoEntry
           /\ now - last.prev.timestamp > last.prev.ttl
           /\ last'.op = "getStats") =>
              /\ last.key \notin last'.keys
              /\ last'.ret = Cardinality(last'.keys)]_vars

\* a get has just evicted an expired entry and another entry is still stored
C3_EvictedOne ==
    /\ last.op = "get"
    /\ last.prev # NoEntry
    /\ now - last.prev.timestamp > last.prev.ttl
    /\ last.ret = Null
    /\ last.key \notin DOMAIN cache
    /\ cache # EmptyMap

\* C4: a set on a key leaves exactly one entry for it, with the payload and the
\* time of this set, fresh until this time + T whatever was stored before; no
\* other key changes.
C4_Overwrite ==
    [][last'.op = "set" =>
          LET k == last'.key
          IN  /\ DOMAIN cache' = (DOMAIN cache) \cup {k}
              /\ cache'[k].data = last'.data
              /\ cache'[k].timestamp = now
              /\ cache'[k].ttl = written'[k].T
              /\ \A other \in (DOMAIN cache) \ {k} : cache'[other] = cache[other]
              /\ \A t \in Clock(scenario) :
                    t >= now =>
                        /\ t - now <= written'[k].T => getResult(cache', k, NoParams, t) = last'.data
                        /\ t - now > written'[k].T => getResult(cache', k, NoParams, t) = Null]_vars

\* a set has just replaced an entry that was already expired, with another payload
C4_OverwroteExpired ==
    /\ last.op = "set"
    /\ last.prev # NoEntry
    /\ now - last.prev.timestamp > last.prev.ttl
    /\ last.prev.data # last.data
    /\ cache[last.key].timestamp = now

\* C5: after invalidate(s) the store is the previous store restricted to the
\* keys that do not contain s; the entries left keep payload, timestamp and ttl.
C5_SubstringInvalidation ==
    [][last'.op = "invalidate" =>
          /\ DOMAIN cache' = {k \in DOMAIN cache : ~Occurs(last'.key, k)}
          /\ \A k \in DOMAIN cache' : cache'[k] = cache[k]
          /\ last'.keys = {k \in DOMAIN cache : Occurs(last'.key, k)}]_vars

\* invalidate("/products") removed the list, a query-string list and an item
\* and left /favorites
C5_RemovedThreeLeftOther ==
    /\ last.op = "invalidate"
    /\ last.key = SLASH_PRODUCTS
    /\ {SLASH_PRODUCTS, SLASH_PRODUCTS \o QUESTION \o CATEGORY \o EQUALS \o X,
        SLASH_PRODUCTS_SLASH \o SEVEN} \subseteq last.keys
    /\ SLASH_FAVORITES \in DOMAIN cache

\* C6: after invalidateProduct(id) the store holds neither /products/<id> nor
\* any entry whose key contains /products; entries whose key does not contain
\* /products are unchanged.
C6_SingleItemCascade ==
    [][last'.op = "invalidateProduct" =>
          /\ (SLASH_PRODUCTS_SLASH \o last'.key) \notin DOMAIN cache'
          /\ \A k \in DOMAIN cache' : ~Occurs(SLASH_PRODUCTS, k)
          /\ \A k \in DOMAIN cache :
                ~Occurs(SLASH_PRODUCTS, k) => (k \in DOMAIN cache' /\ cache'[k] = cache[k])
          /\ DOMAIN cache' \subseteq DOMAIN cache]_vars

\* invalidateProduct("7") removed the item, lists, featured and categories and
\* left /favorites
C6_RemovedItemAndLists ==
    /\ last.op = "invalidateProduct"
    /\ last.key = SEVEN
    /\ {SLASH_PRODUCTS_SLASH \o SEVEN, SLASH_PRODUCTS,
        SLASH_PRODUCTS \o QUESTION \o CATEGORY \o EQUALS \o X,
        SLASH_PRODUCTS_FEATURED, SLASH_PRODUCTS_CATEGORIES} \subseteq last.keys
    /\ SLASH_FAVORITES \in DOMAIN cache

-----------------------------------------------------------------------------
(* Claims about the API layer, checked under Spec *)

endpointOf(call) == Api(call.op, call.id).endpoint

\* call p ends in this step
Ends(p) == calls[p].pc # "done" /\ calls'[p].pc = "done"

\* C7: when productsApi.update(id) or productsApi.delete(id) has succeeded, no
\* entry that may hold a copy of that product is left in the store, the
\* /favorites list included.
C7_MutationLeavesNoCopy ==
    [][\A p \in Procs :
          (/\ Ends(p)
           /\ calls'[p].op \in {"productsApi.update", "productsApi.delete"}
           /\ calls'[p].out.kind = "ok") =>
              \A k \in DOMAIN cache' : ~mayHoldProduct(k, calls'[p].id)]_vars

\* C8: fetchApi called for a GET with useCache = true while the store holds a
\* fresh entry for the endpoint returns that entry's payload, sends no request
\* to the endpoint or to /auth/refresh and leaves the store unchanged.
C8_ReadThroughHit ==
    [][\A p \in Procs :
          (/\ calls[p].pc \in {"idle", "done"}
           /\ calls'[p] # calls[p]
           /\ calls'[p].op \in GetOps
           /\ calls'[p].useCache
           /\ endpointOf(calls'[p]) \in DOMAIN cache
           /\ now - cache[endpointOf(calls'[p])].timestamp <= cache[endpointOf(calls'[p])].ttl) =>
              /\ calls'[p].pc = "done"
              /\ calls'[p].out = [kind |-> "ok", value |-> cache[endpointOf(calls'[p])].data,
                                  code |-> ""]
              /\ calls'[p].reqs = 0
              /\ cache' = cache
              /\ refreshPromise' = refreshPromise
              /\ isRefreshing' = isRefreshing]_vars

\* a cache-enabled GET was answered from an entry written earlier
C8_ServedFromCache ==
    \E p \in Procs :
        /\ calls[p].pc = "done"
        /\ calls[p].hit
        /\ calls[p].reqs = 0
        /\ endpointOf(calls[p]) \in DOMAIN cache
        /\ calls[p].out.value = cache[endpointOf(calls[p])].data
        /\ now > cache[endpointOf(calls[p])].timestamp

cacheable(call) == call.op \in GetOps /\ call.useCache

\* C9 as stated: fetchApi writes an entry only after a cache-enabled GET got an
\* ok, non-204 response, and every failing, non-GET or useCache = false call
\* leaves the store exactly as it was.
C9_FailuresLeaveStoreAsItWas ==
    \A p \in Procs :
        /\ \A k \in DOMAIN cache :
              <<"set", k>> \in calls[p].delta =>
                  /\ cacheable(calls[p])
                  /\ k = endpointOf(calls[p])
                  /\ calls[p].pc = "done"
                  /\ calls[p].status = 200
        /\ (calls[p].out.kind = "throw" \/ ~cacheable(calls[p])) => calls[p].delta = {}

\* C9 amended: fetchApi writes an entry only after a cache-enabled GET got an
\* ok, non-204 response; a failing call writes nothing, a non-GET or
\* useCache = false call leaves the store exactly as it was, and the only other
\* change a cache-enabled GET makes is the lazy eviction of its own endpoint's
\* expired entry by its cache lookup.
C9_OnlySuccessfulReadsWrite ==
    \A p \in Procs :
        /\ \A d \in calls[p].delta :
              /\ cacheable(calls[p])
              /\ d[2] = endpointOf(calls[p])
              /\ d[1] = "set" =>
                    /\ calls[p].pc = "done"
                    /\ calls[p].out.kind = "ok"
                    /\ calls[p].status = 200
        /\ calls[p].out.kind = "throw" => \A d \in calls[p].delta : d[1] = "delete"
        /\ ~cacheable(calls[p]) => calls[p].delta = {}

\* a cache-enabled GET failed after its lookup evicted the expired entry of its
\* endpoint, and wrote nothing
C9_FailedAfterEviction ==
    \E p \in Procs :
        /\ calls[p].pc = "done"
        /\ calls[p].out.kind = "throw"
        /\ cacheable(calls[p])
        /\ calls[p].delta = {<<"delete", endpointOf(calls[p])>>}
        /\ endpointOf(calls[p]) \notin DOMAIN cache

\* C10: a mutating operation whose request fails throws and changes nothing in
\* the store; its invalidation helper runs only after the success response.
C10_InvalidationOnlyAfterSuccess ==
    \A p \in Procs :
        calls[p].op \in MutatingOps =>
            /\ calls[p].delta = {}
            /\ (calls[p].helper # "none" \/ calls[p].removed # {}) =>
                  /\ calls[p].pc = "done"
                  /\ responseOk(calls[p].status)
            /\ (calls[p].pc = "done" /\ ~responseOk(calls[p].status)) =>
                  /\ calls[p].out.kind = "throw"
                  /\ calls[p].helper = "none"
                  /\ calls[p].removed = {}

\* a mutating operation failed on the server while the store held entries its
\* helper would have removed
C10_FailedMutationKeptEntries ==
    \E p \in Procs :
        /\ calls[p].op \in MutatingOps
        /\ calls[p].pc = "done"
        /\ calls[p].status = 500
        /\ calls[p].out.kind = "throw"
        /\ \E k \in DOMAIN cache : Occurs(SLASH_PRODUCTS, k)
        /\ \E k \in DOMAIN cache : Occurs(SLASH_FAVORITES, k)

ProductMutations ==
    {"productsApi.create", "productsApi.update", "productsApi.delete",
     "productsApi.toggleFeatured", "productsApi.createBulk", "productsApi.deleteBulk"}

\* the path marker of the resource group a mutating operation belongs to
groupOf(op) == IF op \in ProductMutations THEN SLASH_PRODUCTS ELSE SLASH_FAVORITES

C12_LogoutEmptiesStore ==
    [][((accessToken \/ refreshToken) /\ ~accessToken' /\ ~refreshToken') =>
          cache' = EmptyMap]_vars

-----------------------------------------------------------------------------
(* Claims about key derivation and the TTL policy, checked under KeySpec *)

\* the name/value pairs of a parameter object, whatever their insertion order
pairSet(params) ==
    IF ~params.given THEN {} ELSE {params.pairs[i] : i \in 1..Len(params.pairs)}

sameParams(a, b) == pairSet(a) = pairSet(b)

\* C13: the key of a get or set is the same for every insertion order of its
\* parameters, so a get after a set with the same parameters in another order
\* returns what was set; with no parameters or an empty parameter object the
\* key is the path.
C13_OrderIndependentKeys ==
    last.op \in {"get", "set"} =>
        /\ pairSet(last.params) = {} => last.key = last.endpoint
        /\ \A c \in Calls(scenario) :
              (c[1] = last.endpoint /\ sameParams(c[2], last.params)) =>
                  /\ generateKey(c[1], c[2]) = last.key
                  /\ last.op = "set" => getResult(cache, c[1], c[2], now) = last.data
        /\ (/\ last.op = "get"
            /\ last.key \in DOMAIN written
            /\ sameParams(written[last.key].params, last.params)
            /\ now - written[last.key].t0 <= written[last.key].T) =>
               last.ret = written[last.key].data

\* a get with two parameters hit the entry set with the same two parameters
\* in the other order
C13_HitInOtherOrder ==
    /\ last.op = "get"
    /\ last.ret # Null
    /\ Len(last.params.pairs) = 2
    /\ last.key \in DOMAIN written
    /\ Len(written[last.key].params.pairs) = 2
    /\ written[last.key].params # last.params

\* C14: a set on a path with one parameter set leaves what get returns for the
\* same path with every different parameter set, and get with its own
\* parameters returns what it stored.
C14_ParameterSetsDoNotInterfere ==
    [][last'.op = "set" =>
          /\ getResult(cache', last'.endpoint, last'.params, now') = last'.data
          /\ \A c \in Calls(scenario) :
                (c[1] = last'.endpoint /\ ~sameParams(c[2], last'.params)) =>
                    getResult(cache', c[1], c[2], now') = getResult(cache, c[1], c[2], now)]_vars

\* a configuration in which every rule has its own TTL
DistinctTTL ==
    constructed([products |-> 1, productList |-> 2, featuredProducts |-> 3,
                 categories |-> 4, favorites |-> 6, favoritesCount |-> 7, usersList |-> 8])

\* the rules in their fixed order: marker, whether the key must have no query
\* string, configuration field
Rules ==
    <<[marker |-> SLASH_PRODUCTS_FEATURED, bare |-> FALSE, field |-> "featuredProducts"],
      [marker |-> SLASH_PRODUCTS_CATEGORIES, bare |-> FALSE, field |-> "categories"],
      [marker |-> SLASH_PRODUCTS_SLASH, bare |-> TRUE, field |-> "products"],
      [marker |-> SLASH_PRODUCTS, bare |-> FALSE, field |-> "productList"],
      [marker |-> SLASH_FAVORITES_COUNT, bare |-> FALSE, field |-> "favoritesCount"],
      [marker |-> SLASH_FAVORITES, bare |-> FALSE, field |-> "favorites"],
      [marker |-> SLASH_USERS, bare |-> FALSE, field |-> "usersList"]>>

matches(rule, key) == Occurs(rule.marker, key) /\ (rule.bare => ~Occurs(QUESTION, key))

\* minutes of the first rule of Rules that matches key, 5 when none does
firstMatch(config, key) ==
    IF \E i \in 1..Len(Rules) : matches(Rules[i], key)
    THEN config[Rules[CHOOSE i \in 1..Len(Rules) :
                          /\ matches(Rules[i], key)
                          /\ \A j \in 1..(i - 1) : ~matches(Rules[j], key)].field]
    ELSE 5

\* C15: the TTL given to an entry is that of the first matching rule in the
\* order featured, categories, item detail, item list, favorites count,
\* favorites, users, default: every stored entry has it, and so has the key
\* of every get and set under a configuration that tells the rules apart.
C15_FirstMatchingRule ==
    /\ \A k \in DOMAIN cache : cache[k].ttl = firstMatch(DEFAULT_TTL, k) * 60 * 1000
    /\ last.op \in {"get", "set"} =>
          /\ getTTL(last.key) = firstMatch(DEFAULT_TTL, last.key) * 60 * 1000
          /\ getTTLWith(DistinctTTL, last.key) = firstMatch(DistinctTTL, last.key) * 60 * 1000
          /\ Occurs(SLASH_PRODUCTS_FEATURED, last.key) =>
                getTTLWith(DistinctTTL, last.key) = 3 * 60 * 1000
          /\ Occurs(SLASH_PRODUCTS_CATEGORIES, last.key) =>
                getTTLWith(DistinctTTL, last.key) = 4 * 60 * 1000
          /\ Occurs(SLASH_FAVORITES_COUNT, last.key) =>
                getTTLWith(DistinctTTL, last.key) = 7 * 60 * 1000

\* entries matching several rules are stored together: featured with a query
\* string, categories, an item detail, the favorites count
C15_StoredOverlappingKeys ==
    /\ {SLASH_PRODUCTS_FEATURED \o QUESTION \o CATEGORY \o EQUALS \o X,
        SLASH_PRODUCTS_CATEGORIES, SLASH_PRODUCTS_SLASH \o SEVEN,
        SLASH_FAVORITES_COUNT} \subseteq DOMAIN cache
    /\ last.op = "set"
    /\ last.key = SLASH_PRODUCTS_CATEGORIES
    /\ cache[last.key].ttl = 5 * 60 * 1000

\* C16: the TTL set gives to an entry depends on the path, not on the names
\* and values of the parameters: for one path, every non-empty parameter set
\* resolves the same TTL.
C16_PolicyTestsThePath ==
    (last.op = "set" /\ pairSet(last.params) # {}) =>
        \A c \in Calls(scenario) :
            (c[1] = last.endpoint /\ pairSet(c[2]) # {}) =>
                getTTL(generateKey(c[1], c[2])) = cache[last.key].ttl

\* key is prefix followed by anything
startsWith(key, prefix) == Len(prefix) <= Len(key) /\ SubSeq(key, 1, Len(prefix)) = prefix

\* C17: with the default construction set stores 30 min for '/products/<id>',
\* for '/products' and '/products?<query>' and for '/products/featured', 5 min
\* for '/products/categories', '/favorites' and '/favorites/count', 10 min for
\* '/users' paths and 5 min for a key matching no rule, in milliseconds; a
\* list call with zero parameters is a list, not an item detail.
C17_DefaultTable ==
    /\ \A k \in DOMAIN cache :
          /\ (\E id \in ProductIds : k = SLASH_PRODUCTS_SLASH \o id) =>
                cache[k].ttl = 30 * 60000
          /\ (k = SLASH_PRODUCTS \/ startsWith(k, SLASH_PRODUCTS \o QUESTION)) =>
                cache[k].ttl = 30 * 60000
          /\ k = SLASH_PRODUCTS_FEATURED => cache[k].ttl = 30 * 60000
          /\ k = SLASH_PRODUCTS_CATEGORIES => cache[k].ttl = 5 * 60000
          /\ k \in {SLASH_FAVORITES, SLASH_FAVORITES_COUNT} => cache[k].ttl = 5 * 60000
          /\ startsWith(k, SLASH_USERS) => cache[k].ttl = 10 * 60000
          /\ (\A i \in 1..Len(Rules) : ~Occurs(Rules[i].marker, k)) =>
                cache[k].ttl = 5 * 60000
    /\ (last.op = "set" /\ last.endpoint = SLASH_PRODUCTS /\ pairSet(last.params) = {}) =>
          /\ last.key = SLASH_PRODUCTS
          /\ getTTLWith(DistinctTTL, last.key) = DistinctTTL.productList * 60000

\* entries of the 30, 5 and 10 minute rules and of no rule are stored
C17_StoredOneOfEach ==
    /\ {SLASH_PRODUCTS_SLASH \o SEVEN, SLASH_PRODUCTS_FEATURED, SLASH_PRODUCTS_CATEGORIES,
        SLASH_FAVORITES, SLASH_FAVORITES_COUNT, SLASH_USERS, SLASH_AUTH_LOGIN}
           \subseteq DOMAIN cache
    /\ cache[SLASH_USERS].ttl = 600000
    /\ cache[SLASH_AUTH_LOGIN].ttl = 300000
    /\ cache[SLASH_PRODUCTS_SLASH \o SEVEN].ttl = 1800000

-----------------------------------------------------------------------------
(* Claims about clear, getStats and the life of an entry, checked under CacheSpec *)

\* C18: clear leaves the store empty whatever was stored; from then on getStats
\* reports size 0 and no keys until a set, and get returns absent for every
\* key that no set has written since.
C18_ClearEmptiesStore ==
    [][/\ last'.op = "clear" =>
             /\ cache' = EmptyMap
             /\ statsOf(cache') = [size |-> 0, keys |-> {}]
             /\ \A c \in Calls(scenario) : getResult(cache', c[1], c[2], now') = Null
       /\ (last'.op = "getStats" /\ written = EmptyMap) =>
             (last'.ret = 0 /\ last'.keys = {})
       /\ (last'.op = "get" /\ last'.key \notin DOMAIN written) => last'.ret = Null]_vars

\* clear removed two entries, one fresh and one expired
C18_ClearedFreshAndExpired ==
    /\ last.op = "clear"
    /\ Cardinality(last.keys) = 2
    /\ last.ret = 1
    /\ cache = EmptyMap

\* C19: getStats reports the number of stored entries and exactly the stored
\* keys, entries that have expired without being queried included, and leaves
\* the store as it is; time passing alone changes nothing it reports.
C19_StatsUnfiltered ==
    [][/\ last'.op = "getStats" =>
             /\ cache' = cache
             /\ last'.ret = Cardinality(DOMAIN cache)
             /\ last'.keys = DOMAIN cache
             /\ \A k \in DOMAIN cache : now - cache[k].timestamp > cache[k].ttl => k \in last'.keys
       /\ last'.op = "tick" => statsOf(cache') = statsOf(cache)]_vars

\* getStats counted two entries, one of them expired and not yet queried
C19_CountedExpired ==
    /\ last.op = "getStats"
    /\ last.ret = 2
    /\ \E k \in last.keys : now - cache[k].timestamp > cache[k].ttl
    /\ \E k \in last.keys : now - cache[k].timestamp <= cache[k].ttl

\* C20: an entry becomes present only through set on its key; the clock never
\* goes back, and a get of an expired entry returns absent and removes it, so
\* whatever a get serves is what the most recent set on that key stored, not
\* yet expired: an expired entry is never served again before a new set.
C20_EntryLifecycle ==
    [][/\ now' >= now
       /\ \A k \in (DOMAIN cache') \ (DOMAIN cache) : last'.op = "set" /\ last'.key = k
       /\ (/\ last'.op = "get"
           /\ last'.key \in DOMAIN cache
           /\ now - cache[last'.key].timestamp > cache[last'.key].ttl) =>
              (last'.ret = Null /\ last'.key \notin DOMAIN cache')
       /\ (last'.op = "get" /\ last'.ret # Null) =>
              /\ last'.key \in DOMAIN written
              /\ now - written[last'.key].t0 <= written[last'.key].T
              /\ last'.ret = written[last'.key].data]_vars

\* a get found nothing for a key that was set, expired and was evicted by an
\* earlier get: absent, fresh, expired, absent
C20_AbsentAgain ==
    /\ last.op = "get"
    /\ last.ret = Null
    /\ last.prev = NoEntry
    /\ last.key \in DOMAIN written
    /\ now - written[last.key].t0 > written[last.key].T

\* C21: every stored entry has the TTL the policy resolves for its key and the
\* time of the most recent set on its key; only a set on that key changes the
\* ttl or the timestamp of an entry.
C21_WriteEstablishesLifetime ==
    [][/\ \A k \in DOMAIN cache' :
             /\ cache'[k].ttl = firstMatch(DEFAULT_TTL, k) * 60 * 1000
             /\ k \in DOMAIN written'
             /\ cache'[k].timestamp = written'[k].t0
       /\ \A k \in (DOMAIN cache) \cap (DOMAIN cache') :
             (cache'[k].ttl # cache[k].ttl \/ cache'[k].timestamp # cache[k].timestamp) =>
                 (last'.op = "set" /\ last'.key = k)]_vars

\* a get hit one entry while another, written at another time with another
\* TTL, waits expired in the store
C21_TwoLifetimes ==
    /\ last.op = "get"
    /\ last.ret # Null
    /\ now > cache[last.key].timestamp
    /\ \E k \in DOMAIN cache :
          /\ cache[k].ttl # cache[last.key].ttl
          /\ cache[k].timestamp # cache[last.key].timestamp
          /\ now - cache[k].timestamp > cache[k].ttl

\* C30: key derivation is injective: a get that follows a set hits the entry of
\* that set only when both were given the same path and the same set of
\* parameter name/value pairs, and no other (path, params) pair has the key of
\* a get or set.
C30_InjectiveKeys ==
    [][/\ (last.op = "set" /\ last'.op = "get" /\ last'.key = last.key) =>
              (last'.endpoint = last.endpoint /\ sameParams(last'.params, last.params))
       /\ last'.op \in {"get", "set"} =>
              \A c \in Calls(scenario) :
                  generateKey(c[1], c[2]) = last'.key =>
                      (c[1] = last'.endpoint /\ sameParams(c[2], last'.params))]_vars

\* C29: a cached payload is never altered: the entry a cache-enabled GET leaves
\* after a response holds the response body, a hit returns the stored payload
\* and leaves it as it was, and the payload of an entry changes only when
\* fetchApi stores a new response body under its key.
C29_CachedPayloadsImmutable ==
    [][/\ \A p \in Procs :
             (/\ Ends(p)
              /\ cacheable(calls'[p])
              /\ calls'[p].out.kind = "ok"
              /\ ~calls'[p].hit) =>
                 entryAt(cache', endpointOf(calls'[p])).data = calls[p].body
       /\ \A p \in Procs :
             (calls'[p] # calls[p] /\ calls'[p].hit /\ calls'[p].reqs = 0) =>
                 /\ calls'[p].out.value = cache[endpointOf(calls'[p])].data
                 /\ cache'[endpointOf(calls'[p])].data = cache[endpointOf(calls'[p])].data
       /\ \A k \in (DOMAIN cache) \cap (DOMAIN cache') :
             cache'[k].data # cache[k].data =>
                 \E p \in Procs :
                     /\ Ends(p)
                     /\ cacheable(calls'[p])
                     /\ ~calls'[p].hit
                     /\ endpointOf(calls'[p]) = k
                     /\ cache'[k].data = calls[p].body]_vars

-----------------------------------------------------------------------------
(* Claims about overlapping calls and the session, checked under RaceSpec *)

\* C22: a cache-enabled GET that starts while its key is absent sends its own
\* request whatever the other caller has in flight, and when its 200 response
\* is processed the entry holds that response's payload and the time of that
\* step, whatever entry another response had left.
C22_NoDeduplication ==
    [][\A p \in Callers :
          /\ (/\ calls[p].pc \in {"idle", "done"}
              /\ calls'[p] # calls[p]
              /\ cacheable(calls'[p])
              /\ endpointOf(calls'[p]) \notin DOMAIN cache) =>
                 (calls'[p].pc = "sent" /\ calls'[p].reqs = 1 /\ cache' = cache)
          /\ (/\ calls[p].pc = "replied"
              /\ calls'[p].pc = "done"
              /\ cacheable(calls[p])
              /\ calls[p].status = 200) =>
                 cache'[endpointOf(calls[p])] =
                     [data |-> calls[p].body, timestamp |-> now,
                      ttl |-> getTTL(endpointOf(calls[p]))]]_vars

\* two GETs of one key were in flight together, each with its own request,
\* and the entry is that of the response processed last, not of the newer body
C22_LastProcessedWins ==
    \E p, q \in Callers :
        /\ p # q
        /\ calls[p].pc = "done" /\ calls[q].pc = "done"
        /\ cacheable(calls[p]) /\ cacheable(calls[q])
        /\ endpointOf(calls[p]) = endpointOf(calls[q])
        /\ calls[p].reqs = 1 /\ calls[q].reqs = 1
        /\ calls[p].out.kind = "ok" /\ calls[q].out.kind = "ok"
        /\ calls[p].out.value < calls[q].out.value
        /\ endpointOf(calls[p]) \in DOMAIN cache
        /\ cache[endpointOf(calls[p])].data = calls[p].out.value
        /\ cache[endpointOf(calls[p])].timestamp = now
        /\ now > 0

\* C23: once a successful product mutation has run its invalidation, a
\* cache-enabled GET of the product that is answered from the cache returns
\* no payload older than the version that mutation produced.
C23_NoStaleRepopulation ==
    [][\A p, q \in Callers :
          (/\ calls[q].op \in ProductMutations
           /\ calls[q].pc = "done"
           /\ calls[q].out.kind = "ok"
           /\ calls[q].helper # "none"
           /\ calls[p].pc \in {"idle", "done"}
           /\ calls'[p] # calls[p]
           /\ cacheable(calls'[p])
           /\ calls'[p].hit) =>
              calls'[p].out.value >= calls[q].out.value]_vars

\* POST /auth/refresh requests sent and not yet answered
refreshesInFlight ==
    Cardinality({p \in Callers : calls[p].pc = "refreshSent"})
        + (IF refreshPromise.pc = "sent" THEN 1 ELSE 0)

\* every call stopped at await refreshPromise awaits the one pending refresh
awaitTheSame ==
    \A p \in Callers :
        calls[p].pc = "refreshing" =>
            /\ refreshPromise # NoPromise
            /\ \E i \in 1..Len(refreshPromise.awaiters) : refreshPromise.awaiters[i] = p

\* C24: at most one /auth/refresh request is in flight at any time, the calls
\* that got 401/403 while a refresh was pending all await that refresh, and
\* isRefreshing is true exactly while refreshPromise is set.
C24_RefreshCoalescing ==
    /\ refreshesInFlight <= 1
    /\ awaitTheSame
    /\ isRefreshing <=> refreshPromise # NoPromise

\* the part of C24 that concerns fetchApi alone
C24_WithinFetchApi ==
    /\ awaitTheSame
    /\ isRefreshing <=> refreshPromise # NoPromise

\* the call goes through fetchApi
viaFetchApi(call) ==
    call.op \notin {"none", "authApi.refresh"} /\ ~Api(call.op, call.id).direct

\* C25: a fetchApi call sends its request at most twice and awaits at most one
\* refresh: it awaits only after its first request, with retry enabled; after
\* the refresh it repeats the request once with retry disabled, or ends; a
\* 401/403 on a request with retry disabled throws with that status and
\* starts no refresh; and every call that has started ends.
C25_BoundedRetry ==
    /\ [](\A p \in Procs : calls[p].reqs <= 2)
    /\ [][\A p \in Procs :
             viaFetchApi(calls[p]) =>
                 /\ (calls[p].pc # "refreshing" /\ calls'[p].pc = "refreshing") =>
                        (calls[p].reqs = 1 /\ calls[p].retry)
                 /\ (calls[p].pc = "refreshing" /\ calls'[p].pc # "refreshing") =>
                        \/ calls'[p].pc = "sent" /\ calls'[p].reqs = 2 /\ ~calls'[p].retry
                        \/ calls'[p].pc = "done" /\ calls'[p].reqs = 1
                 /\ (/\ calls[p].pc = "replied"
                     /\ calls'[p] # calls[p]
                     /\ ~calls[p].retry
                     /\ calls[p].status \in {401, 403}) =>
                        /\ calls'[p].pc = "done"
                        /\ calls'[p].out = [kind |-> "throw", value |-> calls[p].status,
                                            code |-> ""]
                        /\ refreshPromise' = refreshPromise
                        /\ isRefreshing' = isRefreshing]_vars
    /\ \A p \in Procs :
          (viaFetchApi(calls[p]) /\ calls[p].pc # "done") ~> (calls[p].pc = "done")

\* the repeated request of a call was answered 401 and the call threw
C25_SecondUnauthorized ==
    \E p \in Procs :
        /\ viaFetchApi(calls[p])
        /\ calls[p].pc = "done"
        /\ calls[p].reqs = 2
        /\ ~calls[p].retry
        /\ Api(calls[p].op, calls[p].id).retry
        /\ calls[p].out = [kind |-> "throw", value |-> 401, code |-> ""]

\* C26: when the pending refresh settles without a new access token, both
\* tokens are removed, AuthProvider is logged out, every call awaiting it
\* throws SESSION_EXPIRED with the status it got, without another request,
\* and the store is not written; a 401/403 with retry enabled and no refresh
\* token stored throws with the response status, starts no refresh and
\* leaves tokens, store and AuthProvider as they were.
C26_FailedRefreshForcesLogout ==
    [][/\ (/\ refreshPromise.pc = "replied"
           /\ refreshPromise' = NoPromise
           /\ ~refreshPromise.token) =>
              /\ ~accessToken'
              /\ ~refreshToken'
              /\ auth' = NoUser
              /\ cache' = cache
              /\ \A p \in Callers :
                    calls[p].pc = "refreshing" =>
                        /\ calls'[p].pc = "done"
                        /\ calls'[p].out = [kind |-> "throw", value |-> calls[p].status,
                                            code |-> "SESSION_EXPIRED"]
                        /\ calls'[p].reqs = calls[p].reqs
                        /\ calls'[p].reqs = 1
       /\ \A p \in Callers :
             (/\ calls[p].pc = "replied"
              /\ calls'[p] # calls[p]
              /\ viaFetchApi(calls[p])
              /\ calls[p].retry
              /\ calls[p].status \in {401, 403}
              /\ ~refreshToken) =>
                 /\ calls'[p].pc = "done"
                 /\ calls'[p].out = [kind |-> "throw", value |-> calls[p].status, code |-> ""]
                 /\ calls'[p].reqs = 1
                 /\ refreshPromise' = refreshPromise
                 /\ isRefreshing' = isRefreshing
                 /\ refreshesInFlight' = refreshesInFlight
                 /\ accessToken' = accessToken
                 /\ refreshToken' = refreshToken
                 /\ cache' = cache
                 /\ auth' = auth]_vars

\* both callers awaited a refresh that failed and were thrown out of the
\* session, and nothing was cached
C26_BothForcedOut ==
    /\ \A p \in Callers :
          /\ calls[p].pc = "done"
          /\ calls[p].out = [kind |-> "throw", value |-> 401, code |-> "SESSION_EXPIRED"]
          /\ calls[p].reqs = 1
    /\ ~accessToken
    /\ ~refreshToken
    /\ auth = NoUser
    /\ mounted(scenario)
    /\ cache = EmptyMap

\* a 401 arrived with no refresh token stored and was thrown as it came
C26_NoRefreshToken ==
    \E p \in Callers :
        /\ calls[p].pc = "done"
        /\ calls[p].retry
        /\ calls[p].out = [kind |-> "throw", value |-> 401, code |-> ""]
        /\ ~isRefreshing

\* C27: once clearTokens has emptied the storage, an access token is stored
\* again only by a successful login.
C27_LogoutIsFinal ==
    [][(~accessToken /\ ~refreshToken /\ accessToken') =>
          \E p \in Callers :
              /\ calls[p].op = "authApi.login"
              /\ calls[p].pc = "replied"
              /\ calls'[p].pc = "done"
              /\ calls'[p].out.kind = "ok"]_vars

\* C28: isAdmin is true only while user is non-null.
C28_AdminImpliesUser == auth.isAdmin => auth.user

====
